---- MODULE Spec2Model ----
(***************************************************************************)
(* Model of the Arrow -> OTLP trace reconstruction utilities:              *)
(*   python/convert_arrow_to_otlp.py  (convert_arrow_to_otlp)              *)
(*   python/load_arrow_traces.py      (load_otlp_traces_from_arrow,        *)
(*                                     load_otlp_spans_from_arrow,         *)
(*                                     stream_otlp_spans,                  *)
(*                                     get_trace_statistics)               *)
(*                                                                         *)
(* Python dicts keep insertion order, so a dict is modelled as a sequence  *)
(* of [key, val] entries with distinct keys.  A decoded span is a record   *)
(* [row, payload]: payload is the value json.loads returns, row is the     *)
(* identity of the object (json.loads builds a fresh object per row).      *)
(***************************************************************************)
EXTENDS Integers, Sequences, FiniteSets, Bags, TLC

VARIABLES
    pc,                  \* position of the running operation
    arrow_exists,        \* os.path.exists(arrow_file_path)
    has_service_col,     \* the table has a service_name column
    table,               \* rows of the Arrow file, in physical order
    traces,              \* convert: dict trace_id -> list of spans
    trace_to_service,    \* convert: dict trace_id -> service_name
    service_groups,      \* convert: dict service -> dict trace_id -> spans
    resource_spans_list, \* convert: list of ResourceSpans nodes
    output_file,         \* convert: content of <stem>.otlp.json, or NoFile
    ret,                 \* convert: return value; statistics: outcome
    disk,                \* stream: matched path -> rows of that Arrow file
    batch_size,          \* stream: the batch_size argument
    batch_files,         \* stream: sorted(glob.glob(pattern))
    file_idx,            \* stream: position of the file loop
    row_idx,             \* stream: position of the row loop
    current_batch,       \* stream: the in-progress batch buffer
    yielded,             \* stream: the batches handed to the consumer so far
    arrow_files,         \* to-otlp-json: sorted(glob.glob(pattern))
    all_traces           \* arrow_to_otlp_json: dict trace_id -> list of spans

convertVars == <<arrow_exists, has_service_col, traces, trace_to_service,
                 service_groups, resource_spans_list, output_file>>
streamVars == <<disk, batch_size, batch_files, file_idx, row_idx,
                current_batch, yielded>>
mergeVars == <<arrow_files, all_traces>>
vars == <<pc, table, ret, convertVars, streamVars, mergeVars>>

----------------------------------------------------------------------------
(* Bounds of the model *)

MaxRows == 3         \* rows of the table given to convert_arrow_to_otlp
MaxFiles == 2        \* paths the glob pattern can match
MaxFileRows == 3     \* rows of one streamed file
MaxBatchSize == 2    \* largest batch_size argument
MaxStatRows == 2     \* rows of the table given to get_trace_statistics
MaxMergeRows == 2    \* rows of one file given to arrow_to_otlp_json

----------------------------------------------------------------------------
(* Values *)

TraceIds == {"t1", "t2"}

\* A service_name cell: a string or null (None after to_pandas()).
Str(s) == [null |-> FALSE, str |-> s]
Null == [null |-> TRUE, str |-> ""]
ServiceNames == {Str("svcA"), Str(""), Null}

\* The default of row.get('service_name', 'unknown') and of
\* trace_to_service.get(trace_id, 'unknown').
Unknown == Str("unknown")

\* Texts of the otlp_span column: "1", " 1" and "2" are JSON documents
\* (the first two of the same value), "{" is not.
PayloadTexts == {"1", " 1", "2", "{"}

NoFile == [written |-> FALSE, resourceSpans |-> <<>>]
NoRet == "none"

\* json.loads: the decoded value, or a JSONDecodeError.
json_loads(text) ==
    CASE text = "1" -> [ok |-> TRUE, val |-> 1]
      [] text = " 1" -> [ok |-> TRUE, val |-> 1]
      [] text = "2" -> [ok |-> TRUE, val |-> 2]
      [] OTHER -> [ok |-> FALSE, val |-> 0]

----------------------------------------------------------------------------
(* Insertion-ordered dicts *)

HasKey(d, k) == \E i \in DOMAIN d : d[i].key = k
IndexOfKey(d, k) == CHOOSE i \in DOMAIN d : d[i].key = k

\* d[k] = xs where the code extends: an earlier list of the key is lost.
ExtendAt_overwrite(d, k, xs) ==
    IF HasKey(d, k)
    THEN [d EXCEPT ![IndexOfKey(d, k)].val = xs]
    ELSE Append(d, [key |-> k, val |-> xs])

\* defaultdict(list): d[k].extend(xs)
ExtendAt(d, k, xs) ==
    IF HasKey(d, k)
    THEN [d EXCEPT ![IndexOfKey(d, k)].val = @ \o xs]
    ELSE Append(d, [key |-> k, val |-> xs])

\* trace_to_service.setdefault(k, v): an earlier value of the key is kept.
SetItem_setdefault(f, k, v) ==
    [x \in (DOMAIN f) \cup {k} |-> IF x \in DOMAIN f THEN f[x] ELSE v]

\* trace_to_service[k] = v on a dict held as a function
SetItem(f, k, v) == [x \in (DOMAIN f) \cup {k} |-> IF x = k THEN v ELSE f[x]]

\* d.get(k, default)
GetOr(f, k, default) == IF k \in DOMAIN f THEN f[k] ELSE default

----------------------------------------------------------------------------
(* load_arrow_traces.py: load_otlp_traces_from_arrow *)

\* One decoded span: the object json.loads built for row i.
SpanOf(rows, i) == [row |-> i, payload |-> json_loads(rows[i].otlp_span).val]

RECURSIVE LoadTracesFrom(_, _, _)
LoadTracesFrom(rows, i, acc) ==
    IF i > Len(rows) THEN [ok |-> TRUE, traces |-> acc]
    ELSE IF ~json_loads(rows[i].otlp_span).ok
         THEN [ok |-> FALSE, traces |-> <<>>]      \* JSONDecodeError propagates
         ELSE LoadTracesFrom(rows, i + 1,
                  ExtendAt(acc, rows[i].trace_id, <<SpanOf(rows, i)>>))

\* traces = defaultdict(list); per row: traces[trace_id].append(otlp_span)
load_otlp_traces_from_arrow(rows) == LoadTracesFrom(rows, 1, <<>>)

----------------------------------------------------------------------------
(* convert_arrow_to_otlp.py: convert_arrow_to_otlp *)

\* row.get('service_name', 'unknown'): the default applies only when the
\* column is absent; a null cell is returned as it is.
RowService(hasCol, row) == IF hasCol THEN row.service_name ELSE Unknown

RECURSIVE MapServicesFrom(_, _, _, _)
MapServicesFrom(hasCol, rows, i, acc) ==
    IF i > Len(rows) THEN acc
    ELSE MapServicesFrom(hasCol, rows, i + 1,
             SetItem(acc, rows[i].trace_id, RowService(hasCol, rows[i])))

\* for _, row in df.iterrows(): trace_to_service[trace_id] = service_name
BuildTraceToService(hasCol, rows) == MapServicesFrom(hasCol, rows, 1, <<>>)

\* a new group per trace, whatever groups its service has already
GroupOne_perTrace(sg, service, tid, spans) ==
    Append(sg, [key |-> service, val |-> ExtendAt(<<>>, tid, spans)])

\* service_groups[service_name][trace_id].extend(spans)
GroupOne(sg, service, tid, spans) ==
    IF HasKey(sg, service)
    THEN [sg EXCEPT ![IndexOfKey(sg, service)].val = ExtendAt(@, tid, spans)]
    ELSE Append(sg, [key |-> service, val |-> ExtendAt(<<>>, tid, spans)])

RECURSIVE GroupFrom(_, _, _, _)
GroupFrom(tr, tts, i, acc) ==
    IF i > Len(tr) THEN acc
    ELSE GroupFrom(tr, tts, i + 1,
             GroupOne(acc, GetOr(tts, tr[i].key, Unknown), tr[i].key, tr[i].val))

\* the traces taken in reverse of their insertion order
GroupByService_reversed(tr, tts) ==
    GroupFrom([i \in 1..Len(tr) |-> tr[Len(tr) + 1 - i]], tts, 1, <<>>)

\* for trace_id, spans in traces.items(): ...
GroupByService(tr, tts) == GroupFrom(tr, tts, 1, <<>>)

RECURSIVE ConcatVals(_, _)
ConcatVals(d, i) == IF i > Len(d) THEN <<>> ELSE d[i].val \o ConcatVals(d, i + 1)

RECURSIVE ConcatValsBefore(_, _)
ConcatValsBefore(d, i) ==
    IF i > Len(d) THEN <<>> ELSE ConcatValsBefore(d, i + 1) \o d[i].val

\* all_spans = spans + all_spans: each trace's spans put before the earlier ones
AllSpans_prepend(trace_dict) == ConcatValsBefore(trace_dict, 1)

\* all_spans = []; for trace_id, spans in trace_dict.items(): all_spans.extend(spans)
AllSpans(trace_dict) == ConcatVals(trace_dict, 1)

\* one ResourceSpans node per service, in service_groups order
BuildResourceSpans(sg) ==
    [i \in 1..Len(sg) |-> [service_name |-> sg[i].key, spans |-> AllSpans(sg[i].val)]]

Rows == [trace_id : TraceIds, service_name : ServiceNames, otlp_span : PayloadTexts]
RowsNoService == [trace_id : TraceIds, service_name : {Null}, otlp_span : PayloadTexts]

RECURSIVE SeqsUpTo(_, _)
SeqsUpTo(S, n) ==
    IF n = 0 THEN {<<>>}
    ELSE LET shorter == SeqsUpTo(S, n - 1)
         IN shorter \cup {Append(q, x) : q \in {r \in shorter : Len(r) = n - 1}, x \in S}

MergeIdle ==
    /\ arrow_files = <<>>
    /\ all_traces = <<>>

StreamIdle ==
    /\ disk = <<>>
    /\ batch_size = 0
    /\ batch_files = <<>>
    /\ file_idx = 0
    /\ row_idx = 0
    /\ current_batch = <<>>
    /\ yielded = <<>>

ConvertInit ==
    /\ pc = "start"
    /\ StreamIdle
    /\ MergeIdle
    /\ arrow_exists \in BOOLEAN
    /\ has_service_col \in BOOLEAN
    /\ IF ~arrow_exists THEN has_service_col = FALSE /\ table = <<>>
       ELSE IF has_service_col THEN table \in SeqsUpTo(Rows, MaxRows)
       ELSE table \in SeqsUpTo(RowsNoService, MaxRows)
    /\ traces = <<>>
    /\ trace_to_service = <<>>
    /\ service_groups = <<>>
    /\ resource_spans_list = <<>>
    /\ output_file = NoFile
    /\ ret = NoRet

\* the output file opened for writing before the try block
CheckExists_openEarly ==
    /\ pc = "start"
    /\ IF arrow_exists
       THEN pc' = "load" /\ ret' = ret
            /\ output_file' = [written |-> TRUE, resourceSpans |-> <<>>]
       ELSE pc' = "done" /\ ret' = FALSE /\ output_file' = output_file
    /\ UNCHANGED <<streamVars, mergeVars>>
    /\ UNCHANGED <<arrow_exists, has_service_col, table, traces, trace_to_service,
                   service_groups, resource_spans_list>>

\* if not os.path.exists(arrow_file_path): return False
CheckExists ==
    /\ pc = "start"
    /\ IF arrow_exists THEN pc' = "load" /\ ret' = ret
       ELSE pc' = "done" /\ ret' = FALSE
    /\ UNCHANGED <<streamVars, mergeVars>>
    /\ UNCHANGED <<arrow_exists, has_service_col, table, traces, trace_to_service,
                   service_groups, resource_spans_list, output_file>>

\* traces = load_otlp_traces_from_arrow(...); if not traces: return False;
\* an exception is caught by the except clause, which returns False
LoadTraces ==
    /\ pc = "load"
    /\ LET r == load_otlp_traces_from_arrow(table)
       IN IF r.ok /\ r.traces # <<>>
          THEN pc' = "map" /\ traces' = r.traces /\ ret' = ret
          ELSE pc' = "done" /\ traces' = r.traces /\ ret' = FALSE
    /\ UNCHANGED <<streamVars, mergeVars>>
    /\ UNCHANGED <<arrow_exists, has_service_col, table, trace_to_service,
                   service_groups, resource_spans_list, output_file>>

MapTraceToService ==
    /\ pc = "map"
    /\ trace_to_service' = BuildTraceToService(has_service_col, table)
    /\ pc' = "group"
    /\ UNCHANGED <<streamVars, mergeVars>>
    /\ UNCHANGED <<arrow_exists, has_service_col, table, traces,
                   service_groups, resource_spans_list, output_file, ret>>

GroupSpans ==
    /\ pc = "group"
    /\ service_groups' = GroupByService(traces, trace_to_service)
    /\ pc' = "build"
    /\ UNCHANGED <<streamVars, mergeVars>>
    /\ UNCHANGED <<arrow_exists, has_service_col, table, traces, trace_to_service,
                   resource_spans_list, output_file, ret>>

BuildNodes ==
    /\ pc = "build"
    /\ resource_spans_list' = BuildResourceSpans(service_groups)
    /\ pc' = "write"
    /\ UNCHANGED <<streamVars, mergeVars>>
    /\ UNCHANGED <<arrow_exists, has_service_col, table, traces, trace_to_service,
                   service_groups, output_file, ret>>

\* json.dump({"resourceSpans": resource_spans_list}, f); return True
WriteOutput ==
    /\ pc = "write"
    /\ output_file' = [written |-> TRUE, resourceSpans |-> resource_spans_list]
    /\ ret' = TRUE
    /\ pc' = "done"
    /\ UNCHANGED <<streamVars, mergeVars>>
    /\ UNCHANGED <<arrow_exists, has_service_col, table, traces, trace_to_service,
                   service_groups, resource_spans_list>>

convert_arrow_to_otlp ==
    \/ CheckExists
    \/ LoadTraces
    \/ MapTraceToService
    \/ GroupSpans
    \/ BuildNodes
    \/ WriteOutput

Spec == ConvertInit /\ [][convert_arrow_to_otlp]_vars

----------------------------------------------------------------------------
(* load_arrow_traces.py: load_otlp_spans_from_arrow, stream_otlp_spans *)

Paths == 1..MaxFiles          \* file paths, numbered in lexicographic order
FileRows == [otlp_span : {"1", "{"}]

\* A decoded payload of row i of the file at path: the object json.loads built.
FileSpan(path, rows, i) ==
    [file |-> path, row |-> i, payload |-> json_loads(rows[i].otlp_span).val]

\* sorted(...) of a set of paths
RECURSIVE SortedSeq(_)
SortedSeq(S) ==
    IF S = {} THEN <<>>
    ELSE LET m == CHOOSE x \in S : \A y \in S : x <= y
         IN <<m>> \o SortedSeq(S \ {m})

\* the matched paths without sorted(): here in descending order
sorted_glob_unsorted(matched) ==
    LET asc == SortedSeq(matched)
    IN [i \in 1..Len(asc) |-> asc[Len(asc) + 1 - i]]

\* batch_files = sorted(glob.glob(pattern))
sorted_glob(matched) == SortedSeq(matched)

\* load_otlp_spans_from_arrow: every row decoded, in row order; a row that
\* does not decode raises.
load_otlp_spans_from_arrow(path, rows) ==
    [ok |-> \A i \in DOMAIN rows : json_loads(rows[i].otlp_span).ok,
     spans |-> [i \in DOMAIN rows |-> FileSpan(path, rows, i)]]

StreamInit ==
    /\ pc = "s_start"
    /\ table = <<>>
    /\ ret = NoRet
    /\ arrow_exists = FALSE
    /\ has_service_col = FALSE
    /\ traces = <<>>
    /\ trace_to_service = <<>>
    /\ service_groups = <<>>
    /\ resource_spans_list = <<>>
    /\ output_file = NoFile
    /\ \E matched \in SUBSET Paths :
           disk \in [matched -> SeqsUpTo(FileRows, MaxFileRows)]
    /\ batch_size \in 0..MaxBatchSize
    /\ MergeIdle
    /\ batch_files = <<>>
    /\ file_idx = 0
    /\ row_idx = 0
    /\ current_batch = <<>>
    /\ yielded = <<>>

CurrentPath == batch_files[file_idx]
CurrentRows == disk[CurrentPath]

\* batch_files = sorted(glob.glob(pattern)); enter the file loop
Glob ==
    /\ pc = "s_start"
    /\ batch_files' = sorted_glob(DOMAIN disk)
    /\ file_idx' = 1
    /\ pc' = "s_file"
    /\ UNCHANGED <<disk, batch_size, row_idx, current_batch, yielded>>
    /\ UNCHANGED <<table, ret, convertVars, mergeVars>>

\* for file_path in batch_files: read the table; current_batch = []
OpenFile ==
    /\ pc = "s_file"
    /\ IF file_idx > Len(batch_files)
       THEN pc' = "s_done" /\ UNCHANGED <<row_idx, current_batch>>
       ELSE pc' = "s_row" /\ row_idx' = 1 /\ current_batch' = <<>>
    /\ UNCHANGED <<disk, batch_size, batch_files, file_idx, yielded>>
    /\ UNCHANGED <<table, ret, convertVars, mergeVars>>

\* the buffer after current_batch.append(otlp_span)
Appended == Append(current_batch, FileSpan(CurrentPath, CurrentRows, row_idx))

\* len(current_batch) > batch_size
BatchFull_gt(batch) == Len(batch) > batch_size

\* if len(current_batch) >= batch_size
BatchFull(batch) == Len(batch) >= batch_size

\* one iteration of the row loop, up to the yield or the end of the body
NextRow ==
    /\ pc = "s_row"
    /\ row_idx <= Len(CurrentRows)
    /\ IF ~json_loads(CurrentRows[row_idx].otlp_span).ok
       THEN pc' = "s_error" /\ UNCHANGED <<row_idx, current_batch, yielded>>
       ELSE /\ current_batch' = Appended
            /\ IF BatchFull(Appended)
               THEN pc' = "s_yield" /\ yielded' = Append(yielded, Appended)
                    /\ UNCHANGED row_idx
               ELSE pc' = "s_row" /\ row_idx' = row_idx + 1 /\ UNCHANGED yielded
    /\ UNCHANGED <<disk, batch_size, batch_files, file_idx>>
    /\ UNCHANGED <<table, ret, convertVars, mergeVars>>

\* the buffer is not replaced by a new list after the yield
ResumeAfterYield_keep ==
    /\ pc = "s_yield"
    /\ current_batch' = current_batch
    /\ row_idx' = row_idx + 1
    /\ pc' = "s_row"
    /\ UNCHANGED <<disk, batch_size, batch_files, file_idx, yielded>>
    /\ UNCHANGED <<table, ret, convertVars, mergeVars>>

\* the consumer asks for the next batch: current_batch = []
ResumeAfterYield ==
    /\ pc = "s_yield"
    /\ current_batch' = <<>>
    /\ row_idx' = row_idx + 1
    /\ pc' = "s_row"
    /\ UNCHANGED <<disk, batch_size, batch_files, file_idx, yielded>>
    /\ UNCHANGED <<table, ret, convertVars, mergeVars>>

\* if current_batch: yield current_batch
HasRemainder(batch) == batch # <<>>

\* the row loop is over: yield the remaining spans, if any
Flush ==
    /\ pc = "s_row"
    /\ row_idx > Len(CurrentRows)
    /\ IF HasRemainder(current_batch)
       THEN pc' = "s_flushed" /\ yielded' = Append(yielded, current_batch)
            /\ UNCHANGED file_idx
       ELSE pc' = "s_file" /\ file_idx' = file_idx + 1 /\ UNCHANGED yielded
    /\ UNCHANGED <<disk, batch_size, batch_files, row_idx, current_batch>>
    /\ UNCHANGED <<table, ret, convertVars, mergeVars>>

\* the consumer asks for the next batch after the remainder: next file
ResumeAfterFlush ==
    /\ pc = "s_flushed"
    /\ file_idx' = file_idx + 1
    /\ pc' = "s_file"
    /\ UNCHANGED <<disk, batch_size, batch_files, row_idx, current_batch, yielded>>
    /\ UNCHANGED <<table, ret, convertVars, mergeVars>>

stream_otlp_spans ==
    \/ Glob
    \/ OpenFile
    \/ NextRow
    \/ ResumeAfterYield
    \/ Flush
    \/ ResumeAfterFlush

SpecStream == StreamInit /\ [][stream_otlp_spans]_vars

----------------------------------------------------------------------------
(* load_arrow_traces.py: get_trace_statistics *)

NsPerMs == 1000000
NsPerSec == 1000000000

Kinds == {"SERVER", "CLIENT"}
Durations == {0, 1500000}
StatRows == [trace_id : TraceIds, service_name : {Str("svcA"), Str("")},
             kind : Kinds, duration_ns : Durations]

RECURSIVE SumDurations(_, _)
SumDurations(rows, i) ==
    IF i > Len(rows) THEN 0 ELSE rows[i].duration_ns + SumDurations(rows, i + 1)

\* Series.mean() of (duration_ns / 1_000_000): a quotient, NaN on an empty
\* Series (pandas raises nothing).
MeanMs(rows) ==
    IF Len(rows) = 0 THEN [nan |-> TRUE, num |-> 0, den |-> 1]
    ELSE [nan |-> FALSE, num |-> SumDurations(rows, 1), den |-> NsPerMs * Len(rows)]

\* the stats dict built by get_trace_statistics
TraceStatistics(rows) ==
    [total_spans |-> Len(rows),
     unique_traces |-> Cardinality({rows[i].trace_id : i \in DOMAIN rows}),
     unique_services |-> Cardinality({rows[i].service_name : i \in DOMAIN rows}),
     span_kinds |-> [k \in {rows[i].kind : i \in DOMAIN rows} |->
                        Cardinality({i \in DOMAIN rows : rows[i].kind = k})],
     avg_duration_ms |-> MeanMs(rows),
     total_duration_seconds |-> [num |-> SumDurations(rows, 1), den |-> NsPerSec]]

StatsInit ==
    /\ pc = "stats"
    /\ table \in SeqsUpTo(StatRows, MaxStatRows)
    /\ ret = [status |-> "none"]
    /\ arrow_exists = TRUE
    /\ has_service_col = TRUE
    /\ traces = <<>>
    /\ trace_to_service = <<>>
    /\ service_groups = <<>>
    /\ resource_spans_list = <<>>
    /\ output_file = NoFile
    /\ StreamIdle
    /\ MergeIdle

\* the function has no guard and no raise: it returns the dict for any table
get_trace_statistics ==
    /\ pc = "stats"
    /\ ret' = [status |-> "returned", error |-> "", stats |-> TraceStatistics(table)]
    /\ pc' = "stats_done"
    /\ UNCHANGED <<table, convertVars, streamVars, mergeVars>>

SpecStats == StatsInit /\ [][get_trace_statistics]_vars

----------------------------------------------------------------------------
(* Properties of convert_arrow_to_otlp (checked under Spec) *)

Converted == pc = "done" /\ ret = TRUE

\* resourceSpans of the written document
Output == output_file.resourceSpans

RECURSIVE ConcatSpans(_, _)
ConcatSpans(nodes, i) ==
    IF i > Len(nodes) THEN <<>> ELSE nodes[i].spans \o ConcatSpans(nodes, i + 1)

\* every span of every resourceSpans[*].scopeSpans[0].spans
OutputSpans == ConcatSpans(Output, 1)

AllRowsDecode == \A i \in DOMAIN table : json_loads(table[i].otlp_span).ok

BagOfSeq(q) ==
    [v \in {q[i] : i \in DOMAIN q} |-> Cardinality({i \in DOMAIN q : q[i] = v})]

RowsOfNode(node) == {node.spans[k].row : k \in DOMAIN node.spans}

\* the node whose span list holds the span of row i
NodeOfRow(i) == CHOOSE g \in DOMAIN Output : i \in RowsOfNode(Output[g])

RowsOfTrace(t) == {i \in DOMAIN table : table[i].trace_id = t}
Min(S) == CHOOSE x \in S : \A y \in S : x <= y
Max(S) == CHOOSE x \in S : \A y \in S : x >= y
FirstRow(t) == Min(RowsOfTrace(t))
LastRow(t) == Max(RowsOfTrace(t))

\* C1 (completeness): when every row decodes, the multiset of payloads in
\* the output equals the multiset of the rows' decoded payloads, and every
\* row's span occurs exactly once in the output.
C1_Completeness ==
    (pc = "done" /\ arrow_exists /\ AllRowsDecode) =>
        /\ BagOfSeq([k \in DOMAIN OutputSpans |-> OutputSpans[k].payload])
             = BagOfSeq([i \in DOMAIN table |-> json_loads(table[i].otlp_span).val])
        /\ Len(OutputSpans) = Len(table)
        /\ \A i \in DOMAIN table :
               Cardinality({k \in DOMAIN OutputSpans : OutputSpans[k].row = i}) = 1

\* three rows of two traces in two groups, two of them with equal payloads
C1_Witness ==
    /\ Converted
    /\ Len(table) = 3
    /\ Len(Output) = 2
    /\ table[1].trace_id = table[3].trace_id
    /\ table[1].trace_id # table[2].trace_id
    /\ table[1].otlp_span = "1" /\ table[2].otlp_span = " 1" /\ table[3].otlp_span = "2"

\* C2 (partition): no two output nodes carry the same service.name label,
\* the nodes' span lists are pairwise disjoint, no list holds a span twice,
\* and together the lists cover every row.
C2_Partition ==
    Converted =>
        /\ \A g, h \in DOMAIN Output :
               g # h => /\ Output[g].service_name # Output[h].service_name
                        /\ RowsOfNode(Output[g]) \cap RowsOfNode(Output[h]) = {}
        /\ \A g \in DOMAIN Output :
               Cardinality(RowsOfNode(Output[g])) = Len(Output[g].spans)
        /\ UNION {RowsOfNode(Output[g]) : g \in DOMAIN Output} = DOMAIN table

\* two traces of one service, met apart from each other, and a second service
C2_Witness ==
    /\ Converted
    /\ Len(table) = 3
    /\ has_service_col
    /\ table[1].trace_id # table[2].trace_id
    /\ table[1].service_name = Str("svcA")
    /\ table[2].service_name = Null
    /\ table[3] = table[1]
    /\ Len(Output) = 2

\* C3 as claimed (first value seen wins): the mapping holds the service of
\* the FIRST row of each trace and the trace's spans sit under that service.
C3_FirstWins ==
    Converted =>
        \A t \in DOMAIN trace_to_service :
            /\ trace_to_service[t] = RowService(has_service_col, table[FirstRow(t)])
            /\ \A i \in RowsOfTrace(t) :
                   Output[NodeOfRow(i)].service_name
                     = RowService(has_service_col, table[FirstRow(t)])

\* C3 amended (last value seen wins): the mapping holds the service of the
\* LAST row of each trace and the trace's spans sit under that service.
C3_LastWins ==
    Converted =>
        \A t \in DOMAIN trace_to_service :
            /\ trace_to_service[t] = RowService(has_service_col, table[LastRow(t)])
            /\ \A i \in RowsOfTrace(t) :
                   Output[NodeOfRow(i)].service_name
                     = RowService(has_service_col, table[LastRow(t)])

\* a trace whose first and last rows disagree on service_name
C3_Witness ==
    /\ Converted
    /\ has_service_col
    /\ \E t \in DOMAIN trace_to_service :
           /\ Cardinality(RowsOfTrace(t)) >= 2
           /\ table[FirstRow(t)].service_name # table[LastRow(t)].service_name

\* rows ordered by (first row of their trace, own row)
TraceThenRow(i, j) ==
    \/ FirstRow(table[i].trace_id) < FirstRow(table[j].trace_id)
    \/ table[i].trace_id = table[j].trace_id /\ i < j

RECURSIVE TraceGrouped(_)
TraceGrouped(S) ==
    IF S = {} THEN <<>>
    ELSE LET m == CHOOSE i \in S : \A j \in S \ {i} : TraceThenRow(i, j)
         IN <<SpanOf(table, m)>> \o TraceGrouped(S \ {m})

\* the rows of the traces mapped to a service
RowsOfService(s) == {i \in DOMAIN table : trace_to_service[table[i].trace_id] = s}

\* C4 (trace-grouped order): each node's span list is the concatenation of
\* the span lists of the traces mapped to its service, traces in order of
\* first occurrence in the table, spans of one trace in row order.
C4_TraceGroupedOrder ==
    Converted =>
        \A g \in DOMAIN Output :
            Output[g].spans = TraceGrouped(RowsOfService(Output[g].service_name))

\* two traces of one service whose trace ids are met in the order t2, t1
C4_Witness ==
    /\ Converted
    /\ Len(table) = 3
    /\ Len(Output) = 1
    /\ table[1].trace_id = "t2" /\ table[2].trace_id = "t1" /\ table[3].trace_id = "t2"

\* C5 as claimed (output order equals source order): two spans of one
\* node's list are in the order of their rows.
C5_SourceOrder ==
    Converted =>
        \A g \in DOMAIN Output :
            \A p, q \in DOMAIN Output[g].spans :
                p < q => Output[g].spans[p].row < Output[g].spans[q].row

\* C5 amended: two spans of one node's list are in the order of the first
\* rows of their traces, and in row order when they are of the same trace.
C5_OrderByTraceThenRow ==
    Converted =>
        \A g \in DOMAIN Output :
            \A p, q \in DOMAIN Output[g].spans :
                p < q => TraceThenRow(Output[g].spans[p].row, Output[g].spans[q].row)

\* rows of two traces interleaved inside one node
C5_Witness ==
    /\ Converted
    /\ Len(table) = 3
    /\ \E g \in DOMAIN Output :
           /\ Len(Output[g].spans) = 3
           /\ Output[g].spans[1].row = 1
           /\ Output[g].spans[2].row = 3
           /\ Output[g].spans[3].row = 2

\* every trace's rows carry one service_name
TracesAgreeOnService ==
    \A i, j \in DOMAIN table :
        table[i].trace_id = table[j].trace_id =>
            table[i].service_name = table[j].service_name

\* C9 as claimed (default service), on tables whose traces agree on their
\* service: a row without service_name column or with a null service_name
\* is emitted under the label "unknown", a row with service_name "" under "".
C9_DefaultService ==
    (Converted /\ TracesAgreeOnService) =>
        \A i \in DOMAIN table :
            /\ (~has_service_col \/ table[i].service_name = Null)
                   => Output[NodeOfRow(i)].service_name = Unknown
            /\ (has_service_col /\ table[i].service_name = Str(""))
                   => Output[NodeOfRow(i)].service_name = Str("")

----------------------------------------------------------------------------
(* Properties of stream_otlp_spans (checked under SpecStream) *)

RECURSIVE ConcatBatches(_, _)
ConcatBatches(batches, i) ==
    IF i > Len(batches) THEN <<>> ELSE batches[i] \o ConcatBatches(batches, i + 1)

\* full deserialization: load_otlp_spans_from_arrow of every matched file,
\* by ascending path
RECURSIVE FullFrom(_)
FullFrom(p) ==
    IF p > MaxFiles THEN <<>>
    ELSE IF p \in DOMAIN disk
         THEN load_otlp_spans_from_arrow(p, disk[p]).spans \o FullFrom(p + 1)
         ELSE FullFrom(p + 1)

FullDeserialization == FullFrom(1)
FullDecodes == \A p \in DOMAIN disk : load_otlp_spans_from_arrow(p, disk[p]).ok

\* C6 (streaming equivalence): for batch_size >= 1, when the stream is
\* exhausted the concatenation of the yielded batches is the sequence full
\* deserialization gives, files by sorted path and rows in row order.
C6_StreamingEquivalence ==
    (pc = "s_done" /\ batch_size >= 1) =>
        /\ FullDecodes
        /\ ConcatBatches(yielded, 1) = FullDeserialization

\* two files, the first split into a full batch and a remainder
C6_Witness ==
    /\ pc = "s_done"
    /\ batch_size = 2
    /\ DOMAIN disk = {1, 2}
    /\ Len(disk[1]) = 3
    /\ Len(disk[2]) = 1
    /\ Len(yielded) = 3

FilesOfBatch(b) == {b[k].file : k \in DOMAIN b}
BatchesOfFile(p) == {k \in DOMAIN yielded : p \in FilesOfBatch(yielded[k])}
CeilDiv(n, d) == (n + d - 1) \div d

\* C7 (batch shape): for batch_size >= 1 every yielded batch holds between
\* 1 and batch_size payloads, all of one file; a batch shorter than
\* batch_size is the last batch of its file and ends at the file's last
\* row; an exhausted stream has yielded ceil(rows / batch_size) batches for
\* each file, so none for a file without rows.
C7_BatchShape ==
    batch_size >= 1 =>
        /\ \A k \in DOMAIN yielded :
               LET b == yielded[k]
               IN /\ Len(b) >= 1
                  /\ Len(b) <= batch_size
                  /\ Cardinality(FilesOfBatch(b)) = 1
                  /\ Len(b) < batch_size =>
                         /\ b[Len(b)].row = Len(disk[b[1].file])
                         /\ \A j \in DOMAIN yielded :
                                j > k => FilesOfBatch(yielded[j]) # FilesOfBatch(b)
        /\ pc = "s_done" =>
               \A p \in DOMAIN disk :
                   Cardinality(BatchesOfFile(p)) = CeilDiv(Len(disk[p]), batch_size)

\* a file without rows and a file yielding a full batch and a remainder
C7_Witness ==
    /\ pc = "s_done"
    /\ batch_size = 2
    /\ DOMAIN disk = {1, 2}
    /\ Len(disk[1]) = 0
    /\ Len(disk[2]) = 3
    /\ Len(yielded) = 2
    /\ Len(yielded[1]) = 2
    /\ Len(yielded[2]) = 1

\* C8 (memory bound): for batch_size >= 1 the in-progress batch buffer
\* never holds more than batch_size payloads.
C8_MemoryBound ==
    batch_size >= 1 => Len(current_batch) <= batch_size

\* the buffer is full for the second time, in a second file
C8_Witness ==
    /\ pc = "s_yield"
    /\ batch_size = 2
    /\ Len(current_batch) = 2
    /\ file_idx = 2
    /\ Len(yielded) = 3

----------------------------------------------------------------------------
(* Properties of get_trace_statistics (checked under SpecStats) *)

\* C10 as claimed (empty-input statistics): on a table without rows the
\* call ends in EmptyTableError and returns no statistics.
C10_EmptyTableError ==
    (pc = "stats_done" /\ Len(table) = 0) =>
        /\ ret.status = "raised"
        /\ ret.error = "EmptyTableError"

----------------------------------------------------------------------------
(* Not-found handling of stream_otlp_spans (checked under SpecStream) *)

\* C11 as claimed (not-found handling), for stream_otlp_spans: when the
\* pattern matches no file the stream ends in a failure, not normally.
C11_StreamNotFound ==
    (DOMAIN disk = {} /\ pc \in {"s_done", "s_error"}) =>
        /\ pc = "s_error"
        /\ yielded = <<>>

----------------------------------------------------------------------------
(* load_arrow_traces.py: arrow_to_otlp_json and the to-otlp-json command *)

MergeRows == [trace_id : TraceIds, service_name : {Str("svcA"), Str("svcB")},
              otlp_span : {"1", "{"}]

\* the spans load_otlp_traces_from_arrow decoded, as objects of the file at path
SpansOfFile(path, spans) ==
    [k \in DOMAIN spans |->
        [file |-> path, row |-> spans[k].row, payload |-> spans[k].payload]]

\* for trace_id, spans in traces.items(): all_traces[trace_id].extend(spans)
RECURSIVE ExtendAllFrom(_, _, _, _)
ExtendAllFrom(acc, path, tr, j) ==
    IF j > Len(tr) THEN acc
    ELSE ExtendAllFrom(ExtendAt(acc, tr[j].key, SpansOfFile(path, tr[j].val)),
                       path, tr, j + 1)

\* for arrow_file in arrow_files: traces = load_otlp_traces_from_arrow(...)
RECURSIVE MergeFrom(_, _, _)
MergeFrom(files, i, acc) ==
    IF i > Len(files) THEN [ok |-> TRUE, traces |-> acc]
    ELSE LET r == load_otlp_traces_from_arrow(disk[files[i]])
         IN IF ~r.ok THEN [ok |-> FALSE, traces |-> acc]   \* the exception propagates
            ELSE MergeFrom(files, i + 1, ExtendAllFrom(acc, files[i], r.traces, 1))

\* service_name = 'unknown'  # This was stored separately in Arrow
ServiceOfSpan(span) == Unknown

\* service_groups = defaultdict(list); service_groups[service_name].append(span)
RECURSIVE SpanGroupsFrom(_, _, _)
SpanGroupsFrom(spans, k, acc) ==
    IF k > Len(spans) THEN acc
    ELSE SpanGroupsFrom(spans, k + 1,
             ExtendAt(acc, ServiceOfSpan(spans[k]), <<spans[k]>>))

\* the ResourceSpans nodes of one trace, one per key of its service_groups
NodesOfTrace(spans) ==
    LET sg == SpanGroupsFrom(spans, 1, <<>>)
    IN [g \in 1..Len(sg) |-> [service_name |-> sg[g].key, spans |-> sg[g].val]]

\* for trace_id, spans in all_traces.items(): ... resource_spans_list.append(...)
RECURSIVE MergedNodesFrom(_, _)
MergedNodesFrom(at, i) ==
    IF i > Len(at) THEN <<>>
    ELSE NodesOfTrace(at[i].val) \o MergedNodesFrom(at, i + 1)

MergeInit ==
    /\ pc = "m_start"
    /\ table = <<>>
    /\ ret = NoRet
    /\ arrow_exists = FALSE
    /\ has_service_col = TRUE
    /\ traces = <<>>
    /\ trace_to_service = <<>>
    /\ service_groups = <<>>
    /\ resource_spans_list = <<>>
    /\ output_file = NoFile
    /\ \E matched \in SUBSET Paths :
           disk \in [matched -> SeqsUpTo(MergeRows, MaxMergeRows)]
    /\ batch_size = 0
    /\ batch_files = <<>>
    /\ file_idx = 0
    /\ row_idx = 0
    /\ current_batch = <<>>
    /\ yielded = <<>>
    /\ MergeIdle

\* arrow_files = sorted(glob.glob(pattern)); if not arrow_files: print, return
CommandGlob ==
    /\ pc = "m_start"
    /\ arrow_files' = sorted_glob(DOMAIN disk)
    /\ pc' = IF sorted_glob(DOMAIN disk) = <<>> THEN "m_nofiles" ELSE "m_load"
    /\ UNCHANGED <<table, ret, convertVars, streamVars, all_traces>>

\* the loading loop of arrow_to_otlp_json
LoadAllTraces ==
    /\ pc = "m_load"
    /\ LET r == MergeFrom(arrow_files, 1, <<>>)
       IN /\ all_traces' = r.traces
          /\ pc' = IF r.ok THEN "m_build" ELSE "m_error"
    /\ UNCHANGED <<table, ret, convertVars, streamVars, arrow_files>>

\* the ResourceSpans loop of arrow_to_otlp_json
BuildMergedNodes ==
    /\ pc = "m_build"
    /\ resource_spans_list' = MergedNodesFrom(all_traces, 1)
    /\ pc' = "m_write"
    /\ UNCHANGED <<table, ret, streamVars, mergeVars>>
    /\ UNCHANGED <<arrow_exists, has_service_col, traces, trace_to_service,
                   service_groups, output_file>>

\* json.dump({"resourceSpans": resource_spans_list}, f)
WriteMerged ==
    /\ pc = "m_write"
    /\ output_file' = [written |-> TRUE, resourceSpans |-> resource_spans_list]
    /\ pc' = "m_done"
    /\ UNCHANGED <<table, ret, streamVars, mergeVars>>
    /\ UNCHANGED <<arrow_exists, has_service_col, traces, trace_to_service,
                   service_groups, resource_spans_list>>

arrow_to_otlp_json ==
    \/ CommandGlob
    \/ LoadAllTraces
    \/ BuildMergedNodes
    \/ WriteMerged

SpecMerge == MergeInit /\ [][arrow_to_otlp_json]_vars

----------------------------------------------------------------------------
(* Properties of arrow_to_otlp_json (checked under SpecMerge) *)

\* the service_name cell of the row a merged span was decoded from
ServiceOfRow(span) == disk[span.file][span.row].service_name

\* C12 as claimed (merged conversion groups by service): every span of the
\* written document sits in a node labelled with its row's service_name,
\* and no two nodes carry the same label.
C12_GroupsByService ==
    pc = "m_done" =>
        /\ \A g \in DOMAIN Output :
               \A k \in DOMAIN Output[g].spans :
                   Output[g].service_name = ServiceOfRow(Output[g].spans[k])
        /\ \A g, h \in DOMAIN Output :
               g # h => Output[g].service_name # Output[h].service_name

----------------------------------------------------------------------------
(* All-or-nothing output of convert_arrow_to_otlp (checked under Spec) *)

\* C13 (all-or-nothing output): the output file is untouched until every
\* row is decoded and every node is built; a call on a table with a row
\* that does not decode, or without rows, returns False and leaves the
\* file untouched; a call returns True only with the whole document written.
C13_AllOrNothing ==
    /\ pc # "done" => output_file = NoFile
    /\ output_file # NoFile =>
           /\ AllRowsDecode
           /\ output_file = [written |-> TRUE, resourceSpans |-> resource_spans_list]
           /\ resource_spans_list =
                  BuildResourceSpans(GroupByService(traces, trace_to_service))
           /\ Len(OutputSpans) = Len(table)
    /\ (pc = "done" /\ (~AllRowsDecode \/ table = <<>>)) =>
           ret = FALSE /\ output_file = NoFile
    /\ (pc = "done" /\ ret = TRUE) => output_file.written
    /\ (pc = "done" /\ ret = FALSE) => output_file = NoFile

\* the third row does not decode after two that did
C13_Witness ==
    /\ pc = "done"
    /\ ret = FALSE
    /\ arrow_exists
    /\ Len(table) = 3
    /\ json_loads(table[1].otlp_span).ok
    /\ json_loads(table[2].otlp_span).ok
    /\ ~json_loads(table[3].otlp_span).ok
    /\ output_file = NoFile

====
